---- MODULE Spec2Model ----
(***************************************************************************)
(* Model of lab_5_scrapper/scrapper.py: Config validation, the crawl loop  *)
(* of Crawler.find_articles, HTMLParser.parse and the main() sequence.     *)
(***************************************************************************)
EXTENDS Integers, Sequences, FiniteSets, TLC

VARIABLES
    config,     \* the JSON object read from CRAWLER_CONFIG_PATH
    pc,         \* position of main()
    error,      \* the exception that ended the run, "none" otherwise
    assets,     \* content of ASSETS_PATH: a set of <<article id, artifact kind>>
    urls,       \* Crawler.urls
    seedIdx,    \* position of the outer loop of find_articles in the seed list
    page,       \* soup.find_all(class_='more-link') of the current seed page
    linkIdx,    \* position of the inner loop of find_articles in page
    seen,       \* history: the links that occurred on seed pages fetched with ok status
    log,        \* history: the GET requests and persistence calls, in order
    artIdx,     \* position of the loop of main() in crawler.urls
    article     \* the Article returned by the current HTMLParser.parse()

vars == <<config, pc, error, assets, urls, seedIdx, page, linkIdx, seen, log, artIdx, article>>

(***************************************************************************)
(* Bounds of the model.                                                    *)
(***************************************************************************)
MaxSeeds == 2       \* longest seed_urls list
MaxPageLen == 2     \* most teaser links on one seed page
NumLinks == 3       \* distinct article links of the site

(***************************************************************************)
(* Values.  A URL is a record of its site prefix, its section ("page" for  *)
(* a listing page, "news" for an article) and a number.                    *)
(***************************************************************************)
SitePrefix == "https://usinsk.online/"

MaxArticles == 150

TimeoutLimit == 60

Url(site, section, n) == [site |-> site, section |-> section, n |-> n]

\* seed_url.startswith('https://usinsk.online/')
StartsWithSite(u) == u.site = SitePrefix

\* Elements a seed_urls list may hold: strings of the site, strings of another
\* site, and a JSON number (t = "int").
SeedElems ==
    { [t |-> "str", s |-> Url(SitePrefix, "page", 1)],
      [t |-> "str", s |-> Url(SitePrefix, "page", 2)],
      [t |-> "str", s |-> Url("https://example.org/", "page", 1)],
      [t |-> "int", s |-> Url("", "", 0)] }

RECURSIVE SeqsUpTo(_, _)
SeqsUpTo(S, n) ==
    IF n = 0 THEN {<<>>}
    ELSE LET shorter == SeqsUpTo(S, n - 1)
         IN  shorter \cup { Append(q, x) : q \in { r \in shorter : Len(r) = n - 1 }, x \in S }

Range(q) == { q[i] : i \in 1..Len(q) }

\* JSON values of config['seed_urls']: absent key, a string, a list.
SeedUrlsValues ==
    { [t |-> "missing", v |-> <<>>], [t |-> "str", v |-> <<>>] }
    \cup { [t |-> "list", v |-> q] : q \in SeqsUpTo(SeedElems, MaxSeeds) }

\* JSON values of an integer-valued key: absent, a string, true, an integer.
QuotaValues ==
    { [t |-> "missing", v |-> 0], [t |-> "str", v |-> 0], [t |-> "bool", v |-> 1] }
    \cup { [t |-> "int", v |-> n] : n \in {-1, 0, 1, 2, MaxArticles, MaxArticles + 1} }

TimeoutValues ==
    { [t |-> "missing", v |-> 0], [t |-> "str", v |-> 0] }
    \cup { [t |-> "int", v |-> n] : n \in {0, 30, TimeoutLimit} }

HeadersValues == {"missing", "dict", "list"}

EncodingValues == {"missing", "str", "int"}

FlagValues == {"missing", "bool", "str"}

Configs ==
    [ seed_urls : SeedUrlsValues,
      total_articles_to_find_and_parse : QuotaValues,
      headers : HeadersValues,
      encoding : EncodingValues,
      timeout : TimeoutValues,
      should_verify_certificate : FlagValues,
      headless_mode : FlagValues ]

\* isinstance(x, int): bool is a subclass of int
IsInt(x) == x.t \in {"int", "bool"}

(***************************************************************************)
(* Config._validate_config_content: the exception raised, or "none".       *)
(***************************************************************************)
\* all(seed_url.startswith(...) for seed_url in config['seed_urls']), evaluated
\* left to right: "true", "false", or the AttributeError of a non-string element.
RECURSIVE AllStartWithSite(_)
AllStartWithSite(q) ==
    IF q = <<>> THEN "true"
    ELSE IF Head(q).t # "str" THEN "AttributeError"
    ELSE IF ~StartsWithSite(Head(q).s) THEN "false"
    ELSE AllStartWithSite(Tail(q))

SeedUrlsError(c) ==
    IF c.seed_urls.t = "missing" THEN "KeyError"
    ELSE IF c.seed_urls.t # "list" THEN "IncorrectSeedURLError"
    ELSE IF AllStartWithSite(c.seed_urls.v) = "AttributeError" THEN "AttributeError"
    ELSE IF AllStartWithSite(c.seed_urls.v) = "false" THEN "IncorrectSeedURLError"
    ELSE "none"

NumArticlesError(c) ==
    LET q == c.total_articles_to_find_and_parse
    IN  IF q.t = "missing" THEN "KeyError"
        ELSE IF ~IsInt(q) \/ q.v <= 0 THEN "IncorrectNumberOfArticlesError"
        ELSE IF ~(1 < q.v /\ q.v <= MaxArticles) THEN "NumberOfArticlesOutOfRangeError"
        ELSE "none"

HeadersError(c) ==
    IF c.headers = "missing" THEN "KeyError"
    ELSE IF c.headers # "dict" THEN "IncorrectHeadersError"
    ELSE "none"

EncodingError(c) ==
    IF c.encoding = "missing" THEN "KeyError"
    ELSE IF c.encoding # "str" THEN "IncorrectEncodingError"
    ELSE "none"

TimeoutError(c) ==
    IF c.timeout.t = "missing" THEN "KeyError"
    ELSE IF ~IsInt(c.timeout) \/ ~(0 < c.timeout.v /\ c.timeout.v < TimeoutLimit)
         THEN "IncorrectTimeoutError"
    ELSE "none"

VerifyError(c) ==
    IF c.should_verify_certificate = "missing" THEN "KeyError"
    ELSE IF c.should_verify_certificate # "bool" THEN "IncorrectVerifyError"
    ELSE IF c.headless_mode = "missing" THEN "KeyError"
    ELSE IF c.headless_mode # "bool" THEN "IncorrectVerifyError"
    ELSE "none"

\* The first check that raises, in the order of the code.
RECURSIVE FirstError(_)
FirstError(errs) ==
    IF errs = <<>> THEN "none"
    ELSE IF Head(errs) # "none" THEN Head(errs)
    ELSE FirstError(Tail(errs))

validate_config_content(c) ==
    FirstError(<< SeedUrlsError(c), NumArticlesError(c), HeadersError(c),
                  EncodingError(c), TimeoutError(c), VerifyError(c) >>)

\* Config.get_seed_urls / get_num_articles of a loaded config
get_seed_urls(c) == [ i \in 1..Len(c.seed_urls.v) |-> c.seed_urls.v[i].s ]

get_num_articles(c) == c.total_articles_to_find_and_parse.v

(***************************************************************************)
(* main(), first steps.                                                    *)
(***************************************************************************)
NoArticle == [id |-> 0, url |-> Url("", "", 0), title |-> "", text |-> "", date |-> "unset"]

Stale == <<0, "stale">>

Init ==
    /\ config \in Configs
    /\ pc = "config"
    /\ error = "none"
    /\ assets = {Stale}
    /\ urls = <<>>
    /\ seedIdx = 0
    /\ page = <<>>
    /\ linkIdx = 0
    /\ seen = {}
    /\ log = <<>>
    /\ artIdx = 0
    /\ article = NoArticle

\* Mutant of AfterConfig: the exception of Config(...) is swallowed.
AfterConfigSwallowed(err) == "prepare"

\* An exception of Config(...) leaves main(); otherwise main() goes on.
AfterConfig(err) == IF err = "none" THEN "prepare" ELSE "aborted"

\* conf = Config(CRAWLER_CONFIG_PATH)
LoadConfig ==
    /\ pc = "config"
    /\ error' = validate_config_content(config)
    /\ pc' = AfterConfig(validate_config_content(config))
    /\ UNCHANGED <<config, assets, urls, seedIdx, page, linkIdx, seen, log, artIdx, article>>

\* prepare_environment(ASSETS_PATH); crawler = Crawler(conf); find_articles() entered
PrepareEnvironment ==
    /\ pc = "prepare"
    /\ assets' = {}
    /\ urls' = <<>>
    /\ seedIdx' = 1
    /\ pc' = "crawl_seed"
    /\ UNCHANGED <<config, error, page, linkIdx, seen, log, artIdx, article>>

(***************************************************************************)
(* Responses of make_request.  requests.get may raise (exc); otherwise the   *)
(* response has an ok flag and, for a listing page, the teaser elements      *)
(* soup.find_all(class_='more-link') yields.                                 *)
(***************************************************************************)
Links == { Url(SitePrefix, "news", i) : i \in 1..NumLinks }

\* A teaser element: its href attribute, which may be absent.
Teasers ==
    { [hasHref |-> TRUE, href |-> l] : l \in Links }
    \cup { [hasHref |-> FALSE, href |-> Url("", "", 0)] }

SeedResponses ==
    { [exc |-> TRUE, ok |-> FALSE, links |-> <<>>] }
    \cup { [exc |-> FALSE, ok |-> b, links |-> q] :
              b \in BOOLEAN, q \in SeqsUpTo(Teasers, MaxPageLen) }

Hrefs(q) == { q[i].href : i \in { j \in 1..Len(q) : q[j].hasHref } }

(***************************************************************************)
(* Crawler.find_articles                                                   *)
(***************************************************************************)
\* Mutant of SeedSkipped: the status of the response is not looked at.
SeedNeverSkipped(res) == FALSE

\* if not res.ok: continue
SeedSkipped(res) == ~res.ok

\* Mutant of QuotaReached: the check is made one element late.
QuotaReachedLate(us, n) == Len(us) = n + 1

\* if len(self.urls) == self.config.get_num_articles(): break
QuotaReached(us, n) == Len(us) = n

\* Mutant of IsNew: no membership test before the append.
IsNewAlways(u, us) == TRUE

\* if self._extract_url(link) not in self.urls
IsNew(u, us) == u \notin Range(us)

GetEvent(u) == [op |-> "get", url |-> u, id |-> 0]

\* res = make_request(url, self.config) for the next seed, up to the inner loop
FetchSeed ==
    /\ pc = "crawl_seed"
    /\ seedIdx <= Len(get_seed_urls(config))
    /\ \E res \in SeedResponses :
         /\ log' = Append(log, GetEvent(get_seed_urls(config)[seedIdx]))
         /\ seen' = IF ~res.exc /\ res.ok THEN seen \cup Hrefs(res.links) ELSE seen
         /\ IF res.exc
              THEN /\ pc' = "crashed"
                   /\ error' = "RequestException"
                   /\ UNCHANGED <<seedIdx, page, linkIdx>>
            ELSE IF SeedSkipped(res)
              THEN /\ seedIdx' = seedIdx + 1
                   /\ UNCHANGED <<pc, error, page, linkIdx>>
            ELSE /\ page' = res.links
                 /\ linkIdx' = 1
                 /\ pc' = "crawl_link"
                 /\ UNCHANGED <<seedIdx, error>>
    /\ UNCHANGED <<config, assets, urls, artIdx, article>>

\* the inner loop leaves the page: on to the next seed
NextSeed ==
    /\ seedIdx' = seedIdx + 1
    /\ page' = <<>>
    /\ linkIdx' = 0
    /\ pc' = "crawl_seed"
    /\ UNCHANGED <<config, error, assets, urls, seen, log, artIdx, article>>

\* for link in soup.find_all(...): exhausted
LinksExhausted ==
    /\ pc = "crawl_link"
    /\ linkIdx > Len(page)
    /\ NextSeed

\* break: the quota is reached
QuotaBreak ==
    /\ pc = "crawl_link"
    /\ linkIdx <= Len(page)
    /\ QuotaReached(urls, get_num_articles(config))
    /\ NextSeed

\* _extract_url: article_bs['href'] of an element without href raises KeyError
ExtractFails ==
    /\ pc = "crawl_link"
    /\ linkIdx <= Len(page)
    /\ ~QuotaReached(urls, get_num_articles(config))
    /\ ~page[linkIdx].hasHref
    /\ pc' = "crashed"
    /\ error' = "KeyError"
    /\ UNCHANGED <<config, assets, urls, seedIdx, page, linkIdx, seen, log, artIdx, article>>

\* self.urls.append(self._extract_url(link))
AppendLink ==
    /\ pc = "crawl_link"
    /\ linkIdx <= Len(page)
    /\ ~QuotaReached(urls, get_num_articles(config))
    /\ page[linkIdx].hasHref
    /\ IsNew(page[linkIdx].href, urls)
    /\ urls' = Append(urls, page[linkIdx].href)
    /\ linkIdx' = linkIdx + 1
    /\ UNCHANGED <<config, pc, error, assets, seedIdx, page, seen, log, artIdx, article>>

\* the link is already in self.urls
SkipKnownLink ==
    /\ pc = "crawl_link"
    /\ linkIdx <= Len(page)
    /\ ~QuotaReached(urls, get_num_articles(config))
    /\ page[linkIdx].hasHref
    /\ ~IsNew(page[linkIdx].href, urls)
    /\ linkIdx' = linkIdx + 1
    /\ UNCHANGED <<config, pc, error, assets, urls, seedIdx, page, seen, log, artIdx, article>>

\* the outer loop is exhausted: find_articles returns, main() enters its loop
FindArticlesReturn ==
    /\ pc = "crawl_seed"
    /\ seedIdx > Len(get_seed_urls(config))
    /\ pc' = "parse"
    /\ artIdx' = 1
    /\ UNCHANGED <<config, error, assets, urls, seedIdx, page, linkIdx, seen, log, article>>

(***************************************************************************)
(* HTMLParser.parse and the loop of main()                                 *)
(***************************************************************************)
\* An article page: whether the elements parse() looks up are there, and
\* whether the date text parses with '%d.%m.%y'.
ArticleResponses ==
    { [exc |-> TRUE,  ok |-> FALSE, hasTitle |-> FALSE, hasDate |-> FALSE, dateOk |-> FALSE],
      [exc |-> FALSE, ok |-> FALSE, hasTitle |-> FALSE, hasDate |-> FALSE, dateOk |-> FALSE],
      [exc |-> FALSE, ok |-> TRUE,  hasTitle |-> TRUE,  hasDate |-> TRUE,  dateOk |-> TRUE],
      [exc |-> FALSE, ok |-> TRUE,  hasTitle |-> FALSE, hasDate |-> TRUE,  dateOk |-> TRUE],
      [exc |-> FALSE, ok |-> TRUE,  hasTitle |-> TRUE,  hasDate |-> FALSE, dateOk |-> FALSE],
      [exc |-> FALSE, ok |-> TRUE,  hasTitle |-> TRUE,  hasDate |-> TRUE,  dateOk |-> FALSE] }

\* Mutant of ArticleId: enumerate(crawler.urls) without the start value.
ArticleIdFromZero(i) == i - 1

\* enumerate(crawler.urls, 1): the id of the article at position i
ArticleId(i) == i

\* Article(self.full_url, self.article_id)
NewArticle(u, i) == [id |-> i, url |-> u, title |-> "", text |-> "", date |-> "unset"]

\* The exception parse() raises on a response, "none" when it returns.
ParseError(res) ==
    IF res.exc THEN "RequestException"
    ELSE IF ~res.ok THEN "none"
    ELSE IF ~res.hasTitle THEN "AttributeError"
    ELSE IF ~res.hasDate THEN "AttributeError"
    ELSE IF ~res.dateOk THEN "ValueError"
    ELSE "none"

\* The article parse() returns on a response it does not raise on.
Parsed(res, u, i) ==
    IF res.ok
      THEN [NewArticle(u, i) EXCEPT !.title = "title", !.text = "text", !.date = "set"]
      ELSE NewArticle(u, i)

\* parser = HTMLParser(url, i, conf); article = parser.parse()
ParseArticle ==
    /\ pc = "parse"
    /\ artIdx <= Len(urls)
    /\ \E res \in ArticleResponses :
         /\ log' = Append(log, GetEvent(urls[artIdx]))
         /\ IF ParseError(res) # "none"
              THEN /\ pc' = "crashed"
                   /\ error' = ParseError(res)
                   /\ UNCHANGED article
              ELSE /\ article' = Parsed(res, urls[artIdx], ArticleId(artIdx))
                   /\ pc' = "to_raw"
                   /\ UNCHANGED error
    /\ UNCHANGED <<config, assets, urls, seedIdx, page, linkIdx, seen, artIdx>>

PersistEvent(kind, a) == [op |-> kind, url |-> a.url, id |-> a.id]

\* The artifact to_raw / to_meta writes for an article: one per kind, keyed by id.
Artifact(kind, a) == <<a.id, kind>>

\* to_raw(article)
ToRaw ==
    /\ pc = "to_raw"
    /\ assets' = assets \cup {Artifact("raw", article)}
    /\ log' = Append(log, PersistEvent("to_raw", article))
    /\ pc' = "to_meta"
    /\ UNCHANGED <<config, error, urls, seedIdx, page, linkIdx, seen, artIdx, article>>

\* to_meta(article), then the next iteration
ToMeta ==
    /\ pc = "to_meta"
    /\ assets' = assets \cup {Artifact("meta", article)}
    /\ log' = Append(log, PersistEvent("to_meta", article))
    /\ artIdx' = artIdx + 1
    /\ pc' = "parse"
    /\ UNCHANGED <<config, error, urls, seedIdx, page, linkIdx, seen, article>>

\* the loop of main() is exhausted
MainReturn ==
    /\ pc = "parse"
    /\ artIdx > Len(urls)
    /\ pc' = "done"
    /\ UNCHANGED <<config, error, assets, urls, seedIdx, page, linkIdx, seen, log, artIdx, article>>

Next ==
    \/ LoadConfig
    \/ PrepareEnvironment
    \/ FetchSeed
    \/ LinksExhausted
    \/ QuotaBreak
    \/ ExtractFails
    \/ AppendLink
    \/ SkipKnownLink
    \/ FindArticlesReturn
    \/ ParseArticle
    \/ ToRaw
    \/ ToMeta
    \/ MainReturn

Spec == Init /\ [][Next]_vars

(***************************************************************************)
(* Properties.                                                             *)
(***************************************************************************)
Quota == get_num_articles(config)

Seeds == get_seed_urls(config)

Min(a, b) == IF a <= b THEN a ELSE b

NoDup(q) == \A i, j \in 1..Len(q) : q[i] = q[j] => i = j

IsPrefixOf(p, q) == Len(p) <= Len(q) /\ \A i \in 1..Len(p) : p[i] = q[i]

\* Config() has returned: find_articles or the loop of main() is running or over.
Loaded == pc \notin {"config", "aborted"}

\* find_articles has returned.
AfterCrawl == pc \in {"parse", "to_raw", "to_meta", "done"}

\* C1: in every state of find_articles (and after it), len(urls) is at most the
\* configured quota total_articles_to_find_and_parse.
C1_QuotaNeverExceeded == Loaded => Len(urls) <= Quota

\* C1 witness: the quota is reached while a link not yet in urls is the next
\* element of the inner loop.
C1_Witness ==
    /\ pc = "crawl_link"
    /\ linkIdx <= Len(page)
    /\ Len(urls) = Quota
    /\ page[linkIdx].hasHref
    /\ page[linkIdx].href \notin Range(urls)

\* C2: when find_articles has returned, len(urls) = min(quota, D), D the number
\* of distinct article links on the seed pages fetched with ok status (a seed
\* with a non-ok status adds nothing to D and raises nothing).
C2_ResultSize == AfterCrawl => Len(urls) = Min(Quota, Cardinality(seen))

\* C2 witness: find_articles returned the quota although more distinct links
\* were on the ok pages.
C2_Witness ==
    /\ pc = "parse"
    /\ artIdx = 1
    /\ Cardinality(seen) > Quota
    /\ Len(urls) = Quota

\* C3: every step leaves urls without a repeated element and keeps the
\* elements already in it at their positions (first-discovery order).
C3_NoDuplicatesOrderKept == [][NoDup(urls') /\ IsPrefixOf(urls, urls')]_vars

\* C3 witness: the same link stood twice on one page, both were processed
\* below the quota, and urls holds it once.
C3_Witness ==
    /\ pc = "crawl_link"
    /\ linkIdx = 3
    /\ page[1].hasHref
    /\ page[1] = page[2]
    /\ urls = <<page[1].href>>
    /\ Quota > 1

\* C4 (as claimed): once len(urls) = quota during find_articles, no GET is
\* issued for a later seed.
C4_NoFetchAfterQuota ==
    [][(pc \in {"crawl_seed", "crawl_link"} /\ Len(urls) = Quota) => log' = log]_vars

\* Each field as the code requires it.
SeedUrlsValid(c) ==
    /\ c.seed_urls.t = "list"
    /\ \A i \in 1..Len(c.seed_urls.v) :
          c.seed_urls.v[i].t = "str" /\ c.seed_urls.v[i].s.site = SitePrefix

HeadersValid(c) == c.headers = "dict"

EncodingValid(c) == c.encoding = "str"

TimeoutValid(c) == IsInt(c.timeout) /\ c.timeout.v \in 1..(TimeoutLimit - 1)

FlagsValid(c) == c.should_verify_certificate = "bool" /\ c.headless_mode = "bool"

\* Config() has just returned or raised.
JustLoaded == pc \in {"prepare", "aborted"}

ArticleCountErrors == {"IncorrectNumberOfArticlesError", "NumberOfArticlesOutOfRangeError"}

\* C5 (as claimed): with the other fields valid, an integer quota q is accepted
\* exactly when 1 <= q <= 150, and fails with an article-count error otherwise.
C5_QuotaRange ==
    LET q == config.total_articles_to_find_and_parse
    IN  ( /\ JustLoaded
          /\ q.t = "int"
          /\ SeedUrlsValid(config) /\ config.seed_urls.v # <<>>
          /\ HeadersValid(config) /\ EncodingValid(config)
          /\ TimeoutValid(config) /\ FlagsValid(config) )
        => IF q.v \in 1..MaxArticles
             THEN pc = "prepare" /\ error = "none"
             ELSE pc = "aborted" /\ error \in ArticleCountErrors

\* C6 (as claimed): the loop of main() never ends on a page that lacks an
\* expected element; parse() returns a record and the loop goes on.
C6_NoAbortOnAnomaly == ~(pc = "crashed" /\ artIdx >= 1 /\ error = "AttributeError")

\* The events of the loop of main(): what follows the GETs of the seeds.
MainLog == SubSeq(log, Len(Seeds) + 1, Len(log))

\* The k-th event of fetch(u_1), to_raw(1), to_meta(1), fetch(u_2), ...
ExpectedEvent(k) ==
    LET i == ((k - 1) \div 3) + 1
        r == (k - 1) % 3
    IN  IF r = 0 THEN [op |-> "get", url |-> urls[i], id |-> 0]
        ELSE IF r = 1 THEN [op |-> "to_raw", url |-> urls[i], id |-> i]
        ELSE [op |-> "to_meta", url |-> urls[i], id |-> i]

\* C7: the events of the loop of main() are, in order, fetch(u_1), to_raw(1),
\* to_meta(1), fetch(u_2), ...: the article at discovery position i has id i and
\* both persistence calls of article i precede the fetch of article i + 1; a run
\* that ends normally has produced all of them.
C7_EventOrder ==
    artIdx >= 1 =>
      /\ Len(MainLog) <= 3 * Len(urls)
      /\ \A k \in 1..Len(MainLog) : MainLog[k] = ExpectedEvent(k)
      /\ pc = "done" => Len(MainLog) = 3 * Len(urls)

\* C7 witness: a finished run over at least two discovered articles.
C7_Witness == pc = "done" /\ Len(urls) >= 2

AllFieldsValid(c) ==
    /\ SeedUrlsValid(c)
    /\ c.total_articles_to_find_and_parse.t \in {"int", "bool"}
    /\ c.total_articles_to_find_and_parse.v \in 2..MaxArticles
    /\ HeadersValid(c)
    /\ EncodingValid(c)
    /\ TimeoutValid(c)
    /\ FlagsValid(c)

ClaimedError(c) ==
    LET q == c.total_articles_to_find_and_parse
    IN  IF ~SeedUrlsValid(c) THEN "IncorrectSeedURLError"
        ELSE IF q.t # "int" THEN "IncorrectNumberOfArticlesError"
        ELSE IF q.v \notin 1..MaxArticles THEN "NumberOfArticlesOutOfRangeError"
        ELSE IF ~HeadersValid(c) THEN "IncorrectHeadersError"
        ELSE IF ~EncodingValid(c) THEN "IncorrectEncodingError"
        ELSE IF ~TimeoutValid(c) THEN "IncorrectTimeoutError"
        ELSE IF ~FlagsValid(c) THEN "IncorrectVerifyError"
        ELSE "none"

\* Configs of plain JSON types with every key present; the quota 1, the
\* boolean quota or timeout and the empty seed list are left out.
PlainConfig(c) ==
    /\ c.seed_urls.t # "missing"
    /\ c.seed_urls.t = "list" => c.seed_urls.v # <<>>
    /\ \A i \in 1..Len(c.seed_urls.v) : c.seed_urls.v[i].t = "str"
    /\ c.total_articles_to_find_and_parse.t \in {"str", "int"}
    /\ c.total_articles_to_find_and_parse.v # 1
    /\ c.headers # "missing"
    /\ c.encoding # "missing"
    /\ c.timeout.t \in {"str", "int"}
    /\ c.should_verify_certificate # "missing"
    /\ c.headless_mode # "missing"

\* C9 (as claimed): loading fails with the kind of the first violated rule; an
\* integer quota outside 1..150, 0 and negatives included, gives
\* NumberOfArticlesOutOfRangeError.
C9_FirstViolatedRule == (JustLoaded /\ PlainConfig(config)) => error = ClaimedError(config)

\* C10 (as claimed): the seed list of a loaded config is a non-empty list whose
\* elements all start with the site prefix.
C10_SeedListNonEmpty ==
    Loaded => (SeedUrlsValid(config) /\ config.seed_urls.v # <<>>)

====
